---- MODULE Spec2Model ----
(***************************************************************************)
(* News-scraper actor: adapter dispatch (scraper/site_scrapers.py,         *)
(* scraper/core.py), the site adapters' scrape methods and the aggregation *)
(* loop of main (src/main.py).                                             *)
(*                                                                         *)
(* Strings are sequences of tokens: a token stands for a run of characters *)
(* that holds no separator, so "//" and "/" are tokens of their own and    *)
(* str.split, str.lower, `in` and startswith act token by token.           *)
(***************************************************************************)
EXTENDS Integers, Sequences, FiniteSets, TLC

VARIABLES
    urls,         \* main: the urls of the input, then the list main iterates
    query,        \* main: query
    max_pages,    \* main: max_pages
    pc,           \* the statement of main, or of the scrape it awaits, that runs next
    idx,          \* position of the for loop of main in urls
    scraper,      \* main: scraper, the adapter instance of the current url
    page_num,     \* scrape: page_num
    results,      \* main: results, what scrape returned
    all_results,  \* main: all_results
    output,       \* main: output, the document written to OUTPUT.json
    page,         \* the candidate elements the scrape in progress read last
    served,       \* candidate elements the sites have served so far
    passes,       \* extraction passes of the scrape invocation in progress
    log,          \* one entry per finished url: how its invocation ended
    calls         \* history of get_scraper_for_url calls of a dispatch session

vars == <<urls, query, max_pages, pc, idx, scraper, page_num, results,
          all_results, output, page, served, passes, log, calls>>

\* Python's None where a string is expected, and where an adapter is expected
None == <<"None">>
NoScraper == [cls |-> "None"]

----------------------------------------------------------------------------
(* Bounds of the model. *)

\* longest urls list of a run
MaxUrls == 2
\* largest maxPages of a run
MaxPages == 2
\* candidate result elements the sites serve during one run
MaxElems == 2
\* dispatch calls of one dispatch history
MaxCalls == 2

----------------------------------------------------------------------------
(* str operations, token by token. *)

\* str.lower: the one upper-case token of the model and its lower-case form
LowerTok(t) == IF t = "ADNOC.AE" THEN "adnoc.ae" ELSE t

Lower(s) == [k \in 1..Len(s) |-> LowerTok(s[k])]

\* s.split(sep)[-1]: what follows the last occurrence of sep (all of s if none)
SplitLast(s, sep) ==
    LET hits == {k \in 1..Len(s) : s[k] = sep}
    IN  IF hits = {} THEN s
        ELSE LET last == CHOOSE k \in hits : \A j \in hits : j <= k
             IN  SubSeq(s, last + 1, Len(s))

\* s.split(sep)[0]: what precedes the first occurrence of sep (all of s if none)
SplitFirst(s, sep) ==
    LET hits == {k \in 1..Len(s) : s[k] = sep}
    IN  IF hits = {} THEN s
        ELSE LET first == CHOOSE k \in hits : \A j \in hits : k <= j
             IN  SubSeq(s, 1, first - 1)

\* key in domain, for a key that is one token
In(key, s) == \E k \in 1..Len(s) : s[k] = key

\* link.startswith(("http://", "https://"))
StartsWithHttp(s) == Len(s) >= 2 /\ s[1] \in {"http:", "https:"} /\ s[2] = "//"

\* url.split("//")[-1].split("/")[0].lower()
Domain(url) == Lower(SplitFirst(SplitLast(url, "//"), "/"))

----------------------------------------------------------------------------
(* Adapter registry and dispatch. *)

\* the dict in insertion order, which is the order its items() are iterated in
SCRAPER_MAP ==
    << [key |-> "adnoc.ae",          cls |-> "AdnocScraper"],
       [key |-> "ahram.org.eg",      cls |-> "AhramScraper"],
       [key |-> "aljazeera.com",     cls |-> "AlJazeeraScraper"],
       [key |-> "africanreview.com", cls |-> "AfricanReviewScraper"],
       [key |-> "al-monitor.com",    cls |-> "AlMonitorScraper"] >>

SiteClasses == {SCRAPER_MAP[k].cls : k \in 1..Len(SCRAPER_MAP)}

PlaywrightClasses ==
    {"PlaywrightScraper", "AdnocScraper", "AlMonitorScraper", "AlJazeeraScraper"}

RequestsClasses == {"RequestsScraper", "AhramScraper", "AfricanReviewScraper"}

\* a constructor whose instances share one results list, the records main
\* has merged so far being in it
NewScraperSharedResults(cls, url) ==
    [cls |-> cls, base_url |-> url, results |-> all_results,
     browser |-> "None", session |-> "None"]

\* BaseScraper.__init__ with the subclass constructors: a fresh instance
NewScraper(cls, url) ==
    [cls |-> cls, base_url |-> url, results |-> <<>>,
     browser |-> "None", session |-> "None"]

\* a factory whose last branch returns nothing
CreateScraperLastBranchNone(url) ==
    LET domain == Domain(url)
    IN  IF In("adnoc.ae", domain) \/ In("aljazeera.com", domain)
          THEN NewScraper("PlaywrightScraper", url)
        ELSE IF In("al-monitor.com", domain) \/ In("alarabiya.net", domain)
          THEN NewScraper("PlaywrightScraper", url)
        ELSE IF In("africanreview.com", domain) \/ In("ahram.org.eg", domain)
          THEN NewScraper("RequestsScraper", url)
        ELSE NoScraper

\* a factory whose last branch takes the static path
CreateScraperDefaultStatic(url) ==
    LET domain == Domain(url)
    IN  IF In("adnoc.ae", domain) \/ In("aljazeera.com", domain)
          THEN NewScraper("PlaywrightScraper", url)
        ELSE IF In("al-monitor.com", domain) \/ In("alarabiya.net", domain)
          THEN NewScraper("PlaywrightScraper", url)
        ELSE IF In("africanreview.com", domain) \/ In("ahram.org.eg", domain)
          THEN NewScraper("RequestsScraper", url)
        ELSE NewScraper("RequestsScraper", url)

\* a factory whose last branch builds a site adapter
CreateScraperDefaultSite(url) ==
    LET domain == Domain(url)
    IN  IF In("adnoc.ae", domain) \/ In("aljazeera.com", domain)
          THEN NewScraper("PlaywrightScraper", url)
        ELSE IF In("al-monitor.com", domain) \/ In("alarabiya.net", domain)
          THEN NewScraper("PlaywrightScraper", url)
        ELSE IF In("africanreview.com", domain) \/ In("ahram.org.eg", domain)
          THEN NewScraper("RequestsScraper", url)
        ELSE NewScraper("AhramScraper", url)

\* ScraperFactory.create_scraper
create_scraper(url) ==
    LET domain == Domain(url)
    IN  IF In("adnoc.ae", domain) \/ In("aljazeera.com", domain)
          THEN NewScraper("PlaywrightScraper", url)
        ELSE IF In("al-monitor.com", domain) \/ In("alarabiya.net", domain)
          THEN NewScraper("PlaywrightScraper", url)
        ELSE IF In("africanreview.com", domain) \/ In("ahram.org.eg", domain)
          THEN NewScraper("RequestsScraper", url)
        ELSE NewScraper("PlaywrightScraper", url)

\* the registered keys the domain contains, as indices of SCRAPER_MAP
Matches(domain) == {k \in 1..Len(SCRAPER_MAP) : In(SCRAPER_MAP[k].key, domain)}

\* a dispatch that compares the keys with the domain before lower-casing it
GetScraperNoLower(url) ==
    LET domain == SplitFirst(SplitLast(url, "//"), "/")
        hits   == Matches(domain)
    IN  IF hits # {}
          THEN NewScraper(SCRAPER_MAP[CHOOSE k \in hits : \A j \in hits : k <= j].cls, url)
          ELSE create_scraper(url)

\* get_scraper_for_url
get_scraper_for_url(url) ==
    LET domain == Domain(url)
        hits   == Matches(domain)
    IN  IF hits # {}
          THEN NewScraper(SCRAPER_MAP[CHOOSE k \in hits : \A j \in hits : k <= j].cls, url)
          ELSE create_scraper(url)

----------------------------------------------------------------------------
(* Target URLs. *)

Scheme == <<"https:", "//">>

\* hosts of the dispatch sessions: each registered key bare or behind a
\* subdomain, in upper case, two keys in one host, and unregistered hosts
Hosts ==
    { <<"adnoc.ae">>, <<"www.", "adnoc.ae">>, <<"ADNOC.AE">>,
      <<"english.", "ahram.org.eg">>, <<"www.", "aljazeera.com">>,
      <<"africanreview.com">>, <<"www.", "al-monitor.com">>,
      <<"aljazeera.com", ".", "adnoc.ae">>, <<"al-monitor.com", ".", "ahram.org.eg">>,
      <<"alarabiya.net">>, <<"example.test">> }

Paths ==
    { <<>>, <<"/", "search">>, <<"/", "go", "//", "aljazeera.com", "/", "search">> }

DispatchUrls == {Scheme \o h \o p : h \in Hosts, p \in Paths} \cup Hosts

\* target URLs: one per site adapter, a registered site under its www host,
\* and two unregistered sites
SiteUrls ==
    { Scheme \o <<"www.", "adnoc.ae", "/", "search">>,
      Scheme \o <<"english.", "ahram.org.eg", "/", "search">>,
      Scheme \o <<"www.", "aljazeera.com", "/", "search">>,
      Scheme \o <<"africanreview.com", "/", "search">>,
      Scheme \o <<"www.", "africanreview.com", "/", "search">>,
      Scheme \o <<"www.", "al-monitor.com", "/", "search">>,
      Scheme \o <<"example.test", "/", "search">>,
      Scheme \o <<"example-static.test", "/", "search">> }

\* the target URLs of the runs over several urls: a Playwright site adapter,
\* a Requests site adapter and the unregistered site
RunUrls ==
    { Scheme \o <<"www.", "al-monitor.com", "/", "search">>,
      Scheme \o <<"english.", "ahram.org.eg", "/", "search">>,
      Scheme \o <<"example.test", "/", "search">> }

Queries == { <<"iraq", " ", "oil">> }

----------------------------------------------------------------------------
(* What a site serves: candidate result elements. *)

\* A candidate element of a result page. title_el: the adapter's title
\* selector finds a node in it; link_el: it holds an <a>; href: that anchor's
\* href attribute, None when it has none; raises: reading it fails (the node
\* is detached, or its markup is malformed).
Elements ==
    { [title_el |-> TRUE,  title |-> <<" ", "Oil output rises", " ">>,
       link_el |-> TRUE,  href |-> <<"/a/1">>, date |-> <<"2024-01-01">>,
       raises |-> FALSE],
      [title_el |-> TRUE,  title |-> <<"Gas deal signed">>,
       link_el |-> TRUE,  href |-> <<"https:", "//", "example.test", "/a/2">>,
       date |-> <<>>, raises |-> FALSE],
      [title_el |-> FALSE, title |-> <<>>,
       link_el |-> TRUE,  href |-> <<"/a/3">>, date |-> <<>>, raises |-> FALSE],
      [title_el |-> TRUE,  title |-> <<"No link here">>,
       link_el |-> FALSE, href |-> None, date |-> <<>>, raises |-> FALSE],
      [title_el |-> TRUE,  title |-> <<"Broken">>,
       link_el |-> TRUE,  href |-> <<"/a/5">>, date |-> <<>>, raises |-> TRUE] }

\* the element lists of at most n elements
RECURSIVE ElemSeqs(_)
ElemSeqs(n) ==
    IF n <= 0 THEN {<<>>}
    ELSE LET shorter == ElemSeqs(n - 1)
         IN  shorter \cup {Append(s, e) : s \in {t \in shorter : Len(t) = n - 1},
                                          e \in Elements}

\* the pages a site may still serve when it has n elements left to serve
AllPages == ElemSeqs(MaxElems)

Pages(n) == {s \in AllPages : Len(s) <= n}

\* str.strip
RECURSIVE Strip(_)
Strip(s) ==
    IF s = <<>> THEN s
    ELSE IF Head(s) = " " THEN Strip(Tail(s))
    ELSE IF s[Len(s)] = " " THEN Strip(SubSeq(s, 1, Len(s) - 1))
    ELSE s

\* "Make relative URLs absolute": link if it is empty or absolute, else the
\* adapter's fixed prefix followed by link
Absolute(prefix, link) ==
    IF link # None /\ link # <<>> /\ ~StartsWithHttp(link) THEN prefix \o link ELSE link

\* Element.get("href", "") of BeautifulSoup: "" for a missing attribute
SoupHref(e) == IF e.href = None THEN <<>> ELSE e.href

----------------------------------------------------------------------------
(* The body of each adapter's loop over the elements of a page: what reading *)
(* one element does.  kind "raise": an exception leaves the body; "append":  *)
(* rec is appended to self.results; "skip": nothing is appended.             *)

Raise == [kind |-> "raise"]
Skip == [kind |-> "skip"]
Rec(r) == [kind |-> "append", rec |-> r]

\* AdnocScraper.scrape, the body of `for result in results`
AdnocElement(e, q) ==
    IF e.raises THEN Raise
    ELSE IF e.title_el /\ e.link_el
      THEN Rec([title |-> Strip(e.title), url |-> e.href, date |-> Strip(e.date),
                snippet |-> <<>>, source |-> "ADNOC", query |-> q])
      ELSE Skip

\* AhramScraper.scrape, the body of `for result in results`, inside its try
AhramElement(e, q) ==
    IF e.raises THEN Raise
    ELSE IF e.title_el
      THEN Rec([title |-> Strip(e.title),
                url |-> Absolute(Scheme \o <<"english.", "ahram.org.eg">>, SoupHref(e)),
                date |-> Strip(e.date), category |-> <<>>, snippet |-> <<>>,
                source |-> "Ahram Online", query |-> q])
      ELSE Skip

\* AlMonitorScraper.scrape, the body of `for article in articles`, inside its try
AlMonitorElement(e, q) ==
    IF e.raises THEN Raise
    ELSE IF e.title_el
      THEN Rec([title |-> Strip(e.title),
                url |-> Absolute(Scheme \o <<"www.", "al-monitor.com">>, e.href),
                date |-> Strip(e.date), source |-> "Al-Monitor", query |-> q])
      ELSE Skip

\* AlJazeeraScraper.scrape, the body of `for article in articles`
AlJazeeraElement(e, q) ==
    IF e.raises THEN Raise
    ELSE IF e.title_el
      THEN Rec([title |-> Strip(e.title),
                url |-> Absolute(Scheme \o <<"www.", "aljazeera.com">>, e.href),
                date |-> Strip(e.date), category |-> <<>>, snippet |-> <<>>,
                source |-> "Al Jazeera", query |-> q])
      ELSE Skip

\* AfricanReviewScraper.scrape, the body of `for result in result_containers`,
\* inside its try
AfricanReviewElement(e, q) ==
    IF e.raises THEN Raise
    ELSE IF e.title_el
      THEN Rec([title |-> Strip(e.title),
                url |-> Absolute(Scheme \o <<"africanreview.com">>, SoupHref(e)),
                date |-> Strip(e.date), snippet |-> <<>>,
                source |-> "African Review", query |-> q])
      ELSE Skip

\* AfricanReviewScraper.scrape, the body of `for heading in headings[:10]`:
\* the text and the href of an anchor the parser found
AfricanReviewHeading(e, q) ==
    Rec([title |-> Strip(e.title),
         url |-> Absolute(Scheme \o <<"africanreview.com">>, SoupHref(e)),
         date |-> <<>>, snippet |-> <<>>,
         source |-> "African Review", query |-> q])

\* the loop body of adapter class cls; mode "headings" is the third selector
\* fallback of AfricanReviewScraper
Element(cls, mode, e, q) ==
    CASE cls = "AdnocScraper"         -> AdnocElement(e, q)
      [] cls = "AhramScraper"         -> AhramElement(e, q)
      [] cls = "AlMonitorScraper"     -> AlMonitorElement(e, q)
      [] cls = "AlJazeeraScraper"     -> AlJazeeraElement(e, q)
      [] cls = "AfricanReviewScraper" ->
           IF mode = "headings" THEN AfricanReviewHeading(e, q)
           ELSE AfricanReviewElement(e, q)

\* the loops whose body is wrapped in try / except Exception / continue
InnerTry(cls, mode) ==
    \/ cls \in {"AhramScraper", "AlMonitorScraper"}
    \/ cls = "AfricanReviewScraper" /\ mode # "headings"

\* One pass over the elements of a page, appending to acc (self.results):
\* the list afterwards, and whether an exception left the loop
RECURSIVE ExtractPage(_, _, _, _, _)
ExtractPage(cls, mode, elems, acc, q) ==
    IF elems = <<>> THEN [results |-> acc, raised |-> FALSE]
    ELSE LET r == Element(cls, mode, Head(elems), q)
         IN  CASE r.kind = "append" ->
                    ExtractPage(cls, mode, Tail(elems), Append(acc, r.rec), q)
               [] r.kind = "skip" ->
                    ExtractPage(cls, mode, Tail(elems), acc, q)
               [] r.kind = "raise" ->
                    IF InnerTry(cls, mode)
                      THEN ExtractPage(cls, mode, Tail(elems), acc, q)
                      ELSE [results |-> acc, raised |-> TRUE]

----------------------------------------------------------------------------
(* The run: main, and the scrape invocation it awaits for each url. *)

\* the urls lists of at most n urls
RECURSIVE UrlLists(_)
UrlLists(n) ==
    IF n <= 0 THEN {<<>>}
    ELSE LET shorter == UrlLists(n - 1)
         IN  shorter \cup {Append(l, u) : l \in {t \in shorter : Len(t) = n - 1},
                                          u \in RunUrls}

\* no OUTPUT.json is written
NoOutput == [written |-> FALSE]

\* actor_input.get('urls', []): a list of urls, a single url given as a
\* string, or the default [] of an input without urls
InputUrls ==
    {[type |-> "list", value |-> l] : l \in UrlLists(MaxUrls)}
      \cup {[type |-> "list", value |-> <<u>>] : u \in SiteUrls}
      \cup {[type |-> "str", value |-> u] : u \in SiteUrls}
      \cup {[type |-> "absent", value |-> <<>>]}

\* main up to the parameters it extracts from the input; the input contract
\* gives maxPages >= 1
Init ==
    /\ urls \in InputUrls
    /\ query \in Queries
    /\ max_pages \in 1..MaxPages
    /\ pc = "main"
    /\ idx = 0 /\ scraper = NoScraper /\ page_num = 0 /\ results = <<>>
    /\ all_results = <<>> /\ output = NoOutput
    /\ page = <<>> /\ served = 0 /\ passes = 0 /\ log = <<>>
    /\ calls = <<>>

\* a main that writes a summary without articles when it has no urls
MainStartEmptySummary ==
    /\ pc = "main"
    /\ LET list == IF urls.type = "str" THEN <<urls.value>> ELSE urls.value
       IN  /\ urls' = list
           /\ IF list = <<>>
                THEN /\ pc' = "done" /\ idx' = idx
                     /\ output' = [written |-> TRUE,
                                   query |-> query, max_pages |-> max_pages,
                                   total_results |-> 0, articles |-> <<>>]
                ELSE pc' = "for" /\ idx' = 1 /\ output' = output
    /\ all_results' = <<>>
    /\ UNCHANGED <<query, max_pages, scraper, page_num, results,
                   page, served, passes, log, calls>>

\* main: the isinstance(urls, str) conversion, the `if not urls` exit, and
\* all_results = []
MainStart ==
    /\ pc = "main"
    /\ LET list == IF urls.type = "str" THEN <<urls.value>> ELSE urls.value
       IN  /\ urls' = list
           /\ IF list = <<>>
                THEN pc' = "done" /\ idx' = idx
                ELSE pc' = "for" /\ idx' = 1
    /\ all_results' = <<>>
    /\ UNCHANGED <<query, max_pages, scraper, page_num, results, output,
                   page, served, passes, log, calls>>

\* main: the head of `for url in urls` and get_scraper_for_url(url, output_dir);
\* an object without a scrape attribute is logged and the loop goes on
GetScraper ==
    /\ pc = "for"
    /\ idx <= Len(urls)
    /\ scraper' = get_scraper_for_url(urls[idx])
    /\ IF scraper'.cls = "None"
         THEN /\ pc' = "for" /\ idx' = idx + 1
              /\ log' = Append(log, [outcome |-> "no scraper", failure |-> "none",
                                     ret |-> <<>>])
         ELSE pc' = "scrape" /\ idx' = idx /\ log' = log
    /\ page_num' = 0 /\ passes' = 0 /\ results' = <<>> /\ page' = <<>>
    /\ UNCHANGED <<urls, query, max_pages, all_results, output, served, calls>>

\* PlaywrightScraper.close: closes the browser if one was launched
Close(sc) ==
    IF sc.browser = "open" THEN [sc EXCEPT !.browser = "closed"] ELSE sc

\* the `finally: await self.close()` of the Playwright adapters; the static
\* adapters have none
Finally(sc) == IF sc.cls \in PlaywrightClasses THEN Close(sc) ELSE sc

\* scrape returns ret to main: sc is the adapter as the return statement finds
\* it, and the finally clause runs on the way out
Return(sc, ret, failure, n) ==
    /\ scraper' = Finally(sc)
    /\ results' = ret
    /\ passes' = n
    /\ log' = Append(log, [outcome |-> "returned", failure |-> failure,
                           ret |-> ret])
    /\ pc' = "merge"

\* an exception leaves scrape outside its try statement and reaches main
Propagate(sc, failure) ==
    /\ scraper' = sc
    /\ results' = results
    /\ passes' = passes
    /\ log' = Append(log, [outcome |-> "raised", failure |-> failure,
                           ret |-> <<>>])
    /\ pc' = "except"

\* scrape of a Playwright adapter up to its try statement: _init_browser, which
\* may fail before the browser is launched or after it (new_context, new_page);
\* the base class PlaywrightScraper then raises NotImplementedError
ScrapeStartPlaywright ==
    /\ pc = "scrape"
    /\ scraper.cls \in PlaywrightClasses
    /\ \/ Propagate(scraper, "init")
       \/ Propagate([scraper EXCEPT !.browser = "open"], "init")
       \/ LET sc == [scraper EXCEPT !.browser = "open"]
          IN  IF sc.cls = "PlaywrightScraper"
                THEN Propagate(sc, "not implemented")
                ELSE /\ scraper' = sc /\ pc' = "goto"
                     /\ UNCHANGED <<results, passes, log>>
    /\ UNCHANGED <<urls, query, max_pages, idx, page_num, all_results, output,
                   page, served, calls>>

\* scrape of a Requests adapter up to its try statement: _init_session; the
\* base class RequestsScraper then raises NotImplementedError
ScrapeStartRequests ==
    /\ pc = "scrape"
    /\ scraper.cls \in RequestsClasses
    /\ LET sc == [scraper EXCEPT !.session = "session"]
       IN  IF sc.cls = "RequestsScraper"
             THEN Propagate(sc, "not implemented")
             ELSE /\ scraper' = sc /\ pc' = "get"
                  /\ UNCHANGED <<results, passes, log>>
    /\ UNCHANGED <<urls, query, max_pages, idx, page_num, all_results, output,
                   page, served, calls>>

\* `except Exception as e: logger.error(...); return []` of the site adapters
ExceptReturnAccumulated(sc) == sc.results

ExceptReturn(sc) == <<>>

\* the Playwright site adapters from page.goto to the for loop: navigation or
\* the wait for the results selector fails (the except clause), AdnocScraper
\* finds the "0 matches" text (return []), or the loop is entered
Goto ==
    /\ pc = "goto"
    /\ \/ Return(scraper, ExceptReturn(scraper), "page", passes) /\ page_num' = page_num
       \/ /\ scraper.cls = "AdnocScraper"
          /\ Return(scraper, <<>>, "no results", passes) /\ page_num' = page_num
       \/ IF 0 < max_pages
            THEN /\ pc' = "loop" /\ page_num' = 0
                 /\ UNCHANGED <<scraper, results, passes, log>>
            ELSE Return(scraper, scraper.results, "none", passes) /\ page_num' = page_num
    /\ UNCHANGED <<urls, query, max_pages, idx, all_results, output, page, served,
                   calls>>

\* range(max_pages) goes on to page_num + 1
RangeNextOffByOne(pn, n) == pn + 1 < n + 1

RangeNext(pn, n) == pn + 1 < n

\* One iteration of `for page_num in range(max_pages)` of a Playwright site
\* adapter: the wait for the item selector (AdnocScraper, AlJazeeraScraper:
\* it times out on a page without items), the pass over the elements, and
\* under `if page_num < max_pages - 1` the pagination step: the next control
\* is clicked, is missing (break), or the click or the load that follows fails
Loop ==
    /\ pc = "loop"
    /\ \/ /\ Return(scraper, ExceptReturn(scraper), "page", passes)
          /\ page_num' = page_num /\ served' = served /\ page' = page
       \/ \E elems \in Pages(MaxElems - served) :
            /\ scraper.cls \in {"AdnocScraper", "AlJazeeraScraper"} => elems # <<>>
            /\ served' = served + Len(elems)
            /\ page' = elems
            /\ LET r  == ExtractPage(scraper.cls, "containers", elems,
                                     scraper.results, query)
                   sc == [scraper EXCEPT !.results = r.results]
                   continue ==
                     IF RangeNext(page_num, max_pages)
                       THEN /\ scraper' = sc /\ page_num' = page_num + 1
                            /\ passes' = passes + 1 /\ pc' = "loop"
                            /\ UNCHANGED <<results, log>>
                       ELSE /\ Return(sc, sc.results, "none", passes + 1)
                            /\ page_num' = page_num
               IN  IF r.raised
                     THEN /\ Return(sc, ExceptReturn(sc), "element", passes + 1)
                          /\ page_num' = page_num
                   ELSE IF page_num < max_pages - 1
                     THEN \/ continue
                          \/ /\ Return(sc, sc.results, "no next", passes + 1)
                             /\ page_num' = page_num
                          \/ /\ Return(sc, ExceptReturn(sc), "page", passes + 1)
                             /\ page_num' = page_num
                     ELSE continue
    /\ UNCHANGED <<urls, query, max_pages, idx, all_results, output, calls>>

\* headings[:10]
HeadingsLimit == 10

\* The try statement of a Requests site adapter: session.get and
\* raise_for_status fail (the except clause), or the one document is parsed
\* and its elements read.  AfricanReviewScraper falls back to the bare
\* heading anchors of a document without result containers (anchors of a
\* parsed document: each has a text, and reading it does not fail).
Get ==
    /\ pc = "get"
    /\ \/ /\ Return(scraper, ExceptReturn(scraper), "page", passes)
          /\ served' = served /\ page' = page
       \/ \E elems \in Pages(MaxElems - served),
             mode \in IF scraper.cls = "AfricanReviewScraper"
                        THEN {"containers", "headings"} ELSE {"containers"} :
            /\ mode = "containers" /\ scraper.cls = "AfricanReviewScraper"
                 => elems # <<>>
            /\ mode = "headings"
                 => \A k \in 1..Len(elems) : elems[k].title_el /\ ~elems[k].raises
            /\ served' = served + Len(elems)
            /\ page' = elems
            /\ LET read == IF mode = "headings"
                             THEN SubSeq(elems, 1, IF Len(elems) < HeadingsLimit
                                                     THEN Len(elems) ELSE HeadingsLimit)
                             ELSE elems
                   r  == ExtractPage(scraper.cls, mode, read, scraper.results, query)
                   sc == [scraper EXCEPT !.results = r.results]
               IN  IF r.raised
                     THEN Return(sc, ExceptReturn(sc), "element", passes + 1)
                     ELSE Return(sc, sc.results, "none", passes + 1)
    /\ page_num' = page_num
    /\ UNCHANGED <<urls, query, max_pages, idx, all_results, output, calls>>

\* a merge that leaves the record as scrape returned it
TagNothing(rec, url) == rec

\* result['source_url'] = url
Tag(rec, url) ==
    [f \in DOMAIN rec \cup {"source_url"} |->
        IF f = "source_url" THEN url ELSE rec[f]]

TagAll(recs, url) == [k \in 1..Len(recs) |-> Tag(recs[k], url)]

\* a merge that puts the records of the url in front of the earlier ones
MergeResultsInFront(all, recs, url) == TagAll(recs, url) \o all

\* the for loop of main over results: each record is tagged in place and
\* appended to all_results
MergeResults(all, recs, url) == all \o TagAll(recs, url)

\* main, `if results:` ... `else: logger.warning`: the records are the dicts
\* of scraper.results, so the tag shows in the adapter's list too
Merge ==
    /\ pc = "merge"
    /\ IF results # <<>>
         THEN /\ all_results' = MergeResults(all_results, results, urls[idx])
              /\ scraper' = [scraper EXCEPT !.results = TagAll(results, urls[idx])]
         ELSE UNCHANGED <<all_results, scraper>>
    /\ pc' = "for" /\ idx' = idx + 1
    /\ page' = <<>> /\ passes' = 0
    /\ UNCHANGED <<urls, query, max_pages, page_num, results, output, served,
                   log, calls>>

\* where main goes on after its except clause: the next url
AfterExceptAbort(i) == Len(urls) + 1

AfterExcept(i) == i + 1

\* main, `except Exception as e:` ... `continue`
Except ==
    /\ pc = "except"
    /\ pc' = "for" /\ idx' = AfterExcept(idx)
    /\ page' = <<>> /\ passes' = 0
    /\ UNCHANGED <<urls, query, max_pages, scraper, page_num, results,
                   all_results, output, served, log, calls>>

\* main after the loop: the summary document, written only `if all_results`
Summary ==
    /\ pc = "for"
    /\ idx > Len(urls)
    /\ output' = IF all_results # <<>>
                   THEN [written |-> TRUE,
                         query |-> query, max_pages |-> max_pages,
                         total_results |-> Len(all_results),
                         articles |-> all_results]
                   ELSE NoOutput
    /\ pc' = "done"
    /\ UNCHANGED <<urls, query, max_pages, idx, scraper, page_num, results,
                   all_results, page, served, passes, log, calls>>

Next ==
    \/ MainStart
    \/ GetScraper
    \/ ScrapeStartPlaywright
    \/ ScrapeStartRequests
    \/ Goto
    \/ Loop
    \/ Get
    \/ Merge
    \/ Except
    \/ Summary

Spec == Init /\ [][Next]_vars

----------------------------------------------------------------------------
(* A dispatch session: get_scraper_for_url, and the factory it falls back   *)
(* on, called on one URL after another.                                     *)

InitDispatch ==
    /\ urls = <<>> /\ query = <<>> /\ max_pages = 1
    /\ pc = "dispatch" /\ idx = 0 /\ scraper = NoScraper /\ page_num = 0
    /\ results = <<>> /\ all_results = <<>> /\ output = NoOutput
    /\ page = <<>> /\ served = 0 /\ passes = 0 /\ log = <<>>
    /\ calls = <<>>

Dispatch ==
    /\ pc = "dispatch"
    /\ Len(calls) < MaxCalls
    /\ \E u \in DispatchUrls :
         calls' = Append(calls, [url |-> u, scraper |-> get_scraper_for_url(u),
                                 fallback |-> create_scraper(u)])
    /\ UNCHANGED <<urls, query, max_pages, pc, idx, scraper, page_num, results,
                   all_results, output, page, served, passes, log>>

NextDispatch == Dispatch

SpecDispatch == InitDispatch /\ [][NextDispatch]_vars

----------------------------------------------------------------------------
(* Claims about dispatch, checked on the dispatch sessions (SpecDispatch). *)

\* the adapter class registered for the first key of SCRAPER_MAP that the
\* domain contains
RegisteredClass(domain) ==
    LET hits == Matches(domain)
    IN  SCRAPER_MAP[CHOOSE k \in hits : \A j \in hits : k <= j].cls

C2_DispatchTotal ==
    \A k \in 1..Len(calls) :
        Matches(Domain(calls[k].url)) = {}
          => /\ calls[k].scraper # NoScraper
             /\ calls[k].scraper.cls \in {"PlaywrightScraper", "RequestsScraper"}
             /\ calls[k].scraper.base_url = calls[k].url

\* a call on the unregistered host example.test returned a default adapter
C2_Witness ==
    \E k \in 1..Len(calls) :
        /\ In("example.test", Domain(calls[k].url))
        /\ Matches(Domain(calls[k].url)) = {}
        /\ calls[k].scraper.cls = "PlaywrightScraper"

----------------------------------------------------------------------------
(* Claims about the run (Spec). *)

\* the ResultSets scrape returned for the first k urls, each tagged with its
\* url, one after the other
RECURSIVE Concatenated(_)
Concatenated(k) ==
    IF k = 0 THEN <<>>
    ELSE Concatenated(k - 1) \o TagAll(log[k].ret, urls[k])

RECURSIVE Counted(_)
Counted(k) == IF k = 0 THEN 0 ELSE Counted(k - 1) + Len(log[k].ret)

\* C3: when the run has ended, all_results is the concatenation, in the order
\* of urls, of the lists scrape returned (each in its own order, each record
\* tagged with its url), its length is the sum of their lengths, and the
\* summary document, written when there is any record, holds that sequence as
\* articles and that sum as total_results.
C3_AggregationOrder ==
    (pc = "done" /\ urls # <<>>)
      => /\ Len(log) = Len(urls)
         /\ all_results = Concatenated(Len(urls))
         /\ Len(all_results) = Counted(Len(urls))
         /\ output.written <=> Counted(Len(urls)) > 0
         /\ output.written
              => /\ output.articles = Concatenated(Len(urls))
                 /\ output.total_results = Counted(Len(urls))

\* a finished run over two different urls that each produced a record
C3_Witness ==
    /\ pc = "done"
    /\ Len(urls) = 2
    /\ urls[1] # urls[2]
    /\ Len(log[1].ret) = 1
    /\ Len(log[2].ret) = 1
    /\ output.written
    /\ output.total_results = 2
    /\ output.articles[1].source_url = urls[1]
    /\ output.articles[2].source_url = urls[2]

\* an invocation that ended by a failure: an exception that reached main, or
\* one that the adapter's except clause turned into an empty list
Failed(entry) == entry.failure \in {"init", "not implemented", "page", "element"}

\* C4: the run never stops at a failed url.  An exception that reaches main
\* leaves it in its except clause, inside the loop, at the url that failed
\* (from where the loop goes on to the next url or the summary); when the run has
\* ended every url has been processed and, for every url processed after a
\* failed one, the records its scrape returned stand in all_results, in
\* their order, at the place its position in urls gives them.
C4_Isolation ==
    /\ pc \in {"main", "for", "scrape", "goto", "loop", "get", "merge", "except", "done"}
    /\ (pc \in {"for", "except", "merge"} => idx \in 1..(Len(urls) + 1))
    /\ (pc \in {"except", "merge"} => idx <= Len(urls) /\ Len(log) = idx)
    /\ (pc = "done" /\ urls # <<>>)
         => /\ Len(log) = Len(urls)
            /\ \A j \in 1..Len(log) : \A k \in (j + 1)..Len(log) :
                 Failed(log[j])
                   => SubSeq(all_results, Counted(k - 1) + 1, Counted(k))
                        = TagAll(log[k].ret, urls[k])

\* a finished run whose first url failed at page level and whose second url's
\* record is the summary's only article
C4_Witness ==
    /\ pc = "done"
    /\ Len(urls) = 2
    /\ log[1].failure = "page"
    /\ Len(log[2].ret) = 1
    /\ output.written
    /\ output.articles = TagAll(log[2].ret, urls[2])

----------------------------------------------------------------------------
(* Claims about one scrape invocation, checked where it hands over to main: *)
(* pc = "merge" after a return, pc = "except" after an exception.           *)

\* how the invocation that ended last ended
Last == log[Len(log)]

Ended == pc \in {"merge", "except"}

\* C5: an invocation never makes more than max_pages extraction passes (a
\* Requests adapter makes one at most), inside the loop the passes made are
\* the pages left behind and page_num is below max_pages, and an invocation
\* that ended because the next control was missing made fewer than max_pages.
C5_PaginationBound ==
    /\ passes <= max_pages
    /\ (pc \in {"get", "merge", "except"} /\ scraper.cls \in RequestsClasses)
         => passes <= 1
    /\ pc = "loop" => (passes = page_num /\ page_num < max_pages)
    /\ (pc = "merge" /\ Last.failure = "no next") => passes < max_pages

\* a run with maxPages = 2 whose first url stopped after one pass for want of
\* a next page and whose second url made both passes
C5_Witness ==
    /\ pc = "merge"
    /\ max_pages = 2
    /\ Len(log) = 2
    /\ log[1].failure = "no next"
    /\ Last.failure = "none"
    /\ passes = 2

\* the elements of a page that lack a required field: the title or the link
Lacking(elems) ==
    {k \in 1..Len(elems) : ~elems[k].title_el \/ ~elems[k].link_el}

\* C6: an invocation that read one page, none of whose K elements failed to
\* be read, holds K - M records, M being the elements of the page that lack
\* the title or the link.
C6_RecordsPerPage ==
    ( /\ pc = "merge"
      /\ passes = 1
      /\ Last.failure \in {"none", "no next"}
      /\ \A k \in 1..Len(page) : ~page[k].raises )
      => Len(scraper.results) = Len(page) - Cardinality(Lacking(page))

\* C7: when an invocation of a Playwright adapter has ended, by a return or
\* by an exception, no browser it launched is still open.
C7_BrowserReleased ==
    (Ended /\ scraper.cls \in PlaywrightClasses) => scraper.browser # "open"

\* C8 as stated: an invocation that ended by a page-level failure returned
\* the records it had accumulated.
C8_ReturnsAccumulated ==
    (Ended /\ Last.failure = "page")
      => pc = "merge" /\ results = scraper.results

\* C8 as amended: an invocation that ended by a page-level failure returned
\* to main, raising nothing, and what it returned is the empty list, whatever
\* it had accumulated in self.results.
C8_ReturnsEmpty ==
    (Ended /\ Last.failure = "page")
      => pc = "merge" /\ Last.outcome = "returned" /\ results = <<>>

\* a page-level failure on the second page, after the first page gave a record
C8_Witness ==
    /\ pc = "merge"
    /\ Last.failure = "page"
    /\ passes = 1
    /\ scraper.results # <<>>
    /\ results = <<>>

\* C9: the step main takes after an invocation that ended by a page-level
\* failure leaves all_results as it was and goes on to the next url.
C9_PageFailureYieldsNothing ==
    [][ (Ended /\ Last.failure = "page")
          => /\ pc = "merge" /\ results = <<>>
             /\ all_results' = all_results
             /\ pc' = "for" /\ idx' = idx + 1 ]_vars

\* a finished run over two urls: the second failed at page level after it
\* had extracted a record, and the summary holds the first url's record only
C9_Witness ==
    /\ pc = "done"
    /\ Len(urls) = 2
    /\ log[2].failure = "page"
    /\ scraper.results # <<>>
    /\ output.written
    /\ \A k \in 1..Len(output.articles) : output.articles[k].source_url = urls[1]
    /\ urls[1] # urls[2]

\* C10: an invocation whose last page held an element that failed to be read
\* did not end by that failure: it returned its self.results.
C10_ElementFailureSkipped ==
    ( /\ Ended
      /\ passes >= 1
      /\ \E k \in 1..Len(page) : page[k].raises
      /\ Last.failure # "page" )
      => /\ pc = "merge"
         /\ Last.failure # "element"
         /\ results = scraper.results

----------------------------------------------------------------------------
(* Claims about the run as a whole (Spec). *)

\* C11 as stated: a run without urls ends with an output whose articles
\* sequence is empty.
C11_EmptyArticles ==
    (pc = "done" /\ urls = <<>>)
      => output.written /\ output.articles = <<>>

\* C11 as amended: a run without urls (absent or empty) ends at once, having
\* resolved no adapter, fetched nothing, raised nothing and merged nothing,
\* and it writes no output document at all.
C11_NoUrlsNoWork ==
    /\ (pc = "done" /\ urls = <<>>)
         => /\ scraper = NoScraper
            /\ served = 0 /\ passes = 0 /\ page = <<>>
            /\ log = <<>>
            /\ all_results = <<>>
            /\ output = NoOutput
    /\ (pc \in {"for", "scrape", "goto", "loop", "get", "merge", "except"})
         => urls # <<>>

\* a run whose input names no urls has ended
C11_Witness ==
    /\ pc = "done"
    /\ urls = <<>>
    /\ idx = 0
    /\ output = NoOutput

\* C12: every record of all_results, and so of the articles of the summary,
\* has a source_url, and it is the url of the invocation that returned the
\* record: the record standing at place k of all_results is the one that the
\* invocation for some url j returned at that place of the concatenation, with
\* nothing changed but the source_url added, and its source_url is url j.
C12_SourceUrlTag ==
    /\ \A k \in 1..Len(all_results) :
         /\ "source_url" \in DOMAIN all_results[k]
         /\ \E j \in 1..Len(log) :
              /\ k \in (Counted(j - 1) + 1)..Counted(j)
              /\ all_results[k].source_url = urls[j]
              /\ LET rec == log[j].ret[k - Counted(j - 1)]
                 IN  /\ DOMAIN all_results[k] = DOMAIN rec \cup {"source_url"}
                     /\ \A f \in DOMAIN rec : all_results[k][f] = rec[f]
    /\ output.written => output.articles = all_results

\* a finished run over two different urls: the first gave nothing and the
\* second two records, both in the summary under the second url
C12_Witness ==
    /\ pc = "done"
    /\ Len(urls) = 2
    /\ urls[1] # urls[2]
    /\ log[1].ret = <<>>
    /\ Len(log[2].ret) = 2
    /\ output.written
    /\ Len(output.articles) = 2
    /\ \A k \in 1..2 : output.articles[k].source_url = urls[2]

\* the host of a url as written: what stands between "//" and the next "/"
Host(url) == SplitFirst(SplitLast(url, "//"), "/")

\* the target URLs of sites that serve their results as static documents
StaticSiteUrls ==
    { Scheme \o <<"english.", "ahram.org.eg", "/", "search">>,
      Scheme \o <<"africanreview.com", "/", "search">>,
      Scheme \o <<"www.", "africanreview.com", "/", "search">>,
      Scheme \o <<"example-static.test", "/", "search">> }

\* an element with a title and a relative link that is read without failure
TitledRelative(e) ==
    /\ e.title_el /\ e.link_el /\ ~e.raises
    /\ e.href # None /\ e.href # <<>> /\ ~StartsWithHttp(e.href)

\* C13: in a run over one static-site url with maxPages = 1 the invocation,
\* unless its session or its fetch fails, fetches the document and returns, and
\* when the document held exactly one element, with a title and a relative
\* link, what it returns is exactly one record, with that title, with the
\* link resolved on the host of the target url, and with the query of the
\* run, which main merges under the target url.
C13_OneRecordScenario ==
    /\ ( /\ Ended /\ Len(urls) = 1 /\ max_pages = 1
         /\ urls[1] \in StaticSiteUrls
         /\ Last.failure \notin {"init", "page"} )
         => Last.outcome = "returned"
    /\ ( /\ pc = "merge" /\ Len(urls) = 1 /\ max_pages = 1
         /\ urls[1] \in StaticSiteUrls
         /\ Last.failure = "none"
         /\ Len(page) = 1 /\ TitledRelative(page[1]) )
         => /\ Len(results) = 1
            /\ results[1].title = Strip(page[1].title)
            /\ results[1].url = Scheme \o Host(urls[1]) \o page[1].href
            /\ results[1].query = query
            /\ MergeResults(all_results, results, urls[idx])
                 = <<Tag(results[1], urls[1])>>

----------------------------------------------------------------------------
(* Claims about the fallback selector, checked on the dispatch sessions     *)
(* (SpecDispatch).                                                          *)

\* the static-content list of ScraperFactory
OnStaticList(domain) == In("africanreview.com", domain) \/ In("ahram.org.eg", domain)

\* the list of the domains ScraperFactory knows as JavaScript-heavy
OnDynamicList(domain) ==
    \/ In("adnoc.ae", domain) \/ In("aljazeera.com", domain)
    \/ In("al-monitor.com", domain) \/ In("alarabiya.net", domain)

\* C14: for every url called on, ScraperFactory.create_scraper returned a
\* PlaywrightScraper unless the domain is on its static-content list (and a
\* RequestsScraper only for a domain on that list and not on the dynamic one),
\* and whenever no registered key is in the domain, what get_scraper_for_url
\* returned is that fallback and it is a PlaywrightScraper.
C14_FallbackDynamic ==
    \A k \in 1..Len(calls) :
        LET domain == Domain(calls[k].url)
        IN  /\ ~OnStaticList(domain) => calls[k].fallback.cls = "PlaywrightScraper"
            /\ calls[k].fallback.cls = "RequestsScraper"
                 => OnStaticList(domain) /\ ~OnDynamicList(domain)
            /\ Matches(domain) = {}
                 => /\ calls[k].scraper = calls[k].fallback
                    /\ calls[k].scraper.cls = "PlaywrightScraper"

\* a history of two calls without a registered key in the domain: one on the
\* dynamic list (alarabiya.net) and one unknown (example.test)
C14_Witness ==
    /\ Len(calls) = 2
    /\ In("alarabiya.net", Domain(calls[1].url))
    /\ In("example.test", Domain(calls[2].url))
    /\ \A k \in 1..2 :
         /\ Matches(Domain(calls[k].url)) = {}
         /\ calls[k].fallback.cls = "PlaywrightScraper"
         /\ calls[k].scraper.cls = "PlaywrightScraper"

----------------------------------------------------------------------------
(* Claims about the adapter instances of a run (Spec). *)

\* C15: the step by which main merges what scrape returned leaves the
\* adapter's self.results as it was when scrape returned: the records are
\* copied into all_results, none is changed.
C15_RecordsNotMutated ==
    [][ pc = "merge" => scraper'.results = scraper.results ]_vars

\* the target URLs of the runs whose domain holds no registered key
UnregisteredUrls == {u \in SiteUrls \cup RunUrls : Matches(Domain(u)) = {}}

\* C16: the invocation for a url whose domain holds no registered key ended
\* by an exception that reached main and returned nothing; main then stands
\* in its except clause, from where the loop goes on; no record of
\* all_results, nor of the summary, has such a url as its source_url; and
\* when the run has ended every url has been processed.
C16_UnregisteredYieldsNothing ==
    /\ \A k \in 1..Len(log) :
         urls[k] \in UnregisteredUrls
           => /\ log[k].outcome = "raised"
              /\ log[k].failure \in {"init", "not implemented"}
              /\ log[k].ret = <<>>
    /\ (Ended /\ urls[idx] \in UnregisteredUrls)
         => pc = "except" /\ results = <<>> /\ scraper.results = <<>>
    /\ \A k \in 1..Len(all_results) :
         all_results[k].source_url \notin UnregisteredUrls
    /\ output.written
         => \A k \in 1..Len(output.articles) :
                output.articles[k].source_url \notin UnregisteredUrls
    /\ (pc = "done" /\ urls # <<>>) => Len(log) = Len(urls)

\* a finished run over an unregistered url followed by a registered one: the
\* first raised NotImplementedError, the second gave the summary's one record
C16_Witness ==
    /\ pc = "done"
    /\ Len(urls) = 2
    /\ urls[1] \in UnregisteredUrls
    /\ Matches(Domain(urls[1])) = {}
    /\ log[1].outcome = "raised"
    /\ log[1].failure = "not implemented"
    /\ Matches(Domain(urls[2])) # {}
    /\ Len(log[2].ret) = 1
    /\ output.written
    /\ output.total_results = 1

\* C17: every url of the list, one listed twice included, gets an adapter
\* constructed for it (of the class dispatch gives its url, with its url as
\* base_url, an empty self.results, no browser and no session) and one
\* invocation of scrape on it: while url idx is being scraped idx - 1
\* invocations have ended, and idx when it hands over to main.  What the
\* invocation returns holds records of that invocation only: none of them has
\* been merged (none has a source_url), and the records merged so far and the
\* adapter's own together are no more than the elements served in the run.
C17_FreshAdapterPerUrl ==
    /\ pc = "scrape"
         => /\ scraper = NewScraper(get_scraper_for_url(urls[idx]).cls, urls[idx])
            /\ scraper.results = <<>>
            /\ Len(log) = idx - 1
    /\ pc \in {"goto", "loop", "get"}
         => /\ scraper.base_url = urls[idx]
            /\ Len(log) = idx - 1
            /\ Len(scraper.results) <= served - Len(all_results)
    /\ Ended => Len(log) = idx
    /\ pc = "merge"
         => /\ \A k \in 1..Len(results) : "source_url" \notin DOMAIN results[k]
            /\ \A k \in 1..Len(scraper.results) :
                 "source_url" \notin DOMAIN scraper.results[k]
            /\ Len(all_results) + Len(scraper.results) <= served
            /\ Len(results) <= Len(scraper.results)
    /\ (pc = "done" /\ urls # <<>>) => Len(log) = Len(urls) /\ idx = Len(urls) + 1

\* a run over the same url listed twice: the first invocation's record is
\* merged, and the second invocation hands over one record of its own
C17_Witness ==
    /\ pc = "merge"
    /\ Len(urls) = 2
    /\ urls[1] = urls[2]
    /\ idx = 2
    /\ Len(all_results) = 1
    /\ Len(results) = 1
    /\ scraper.results = results
    /\ served = 2

====
